---- MODULE Spec2Model ----
(***************************************************************************)
(* State-machine model of brainlift-connections (backend/main.py,          *)
(* backend/groq_service.py, backend/storage.py).                           *)
(*                                                                         *)
(* Strings are sequences of one-character strings, so that strip(),        *)
(* lower() and the substring test of find_section_node are computed.       *)
(* An optional value (a missing key, None) is the empty sequence << >>,    *)
(* a present one the one-element sequence << v >>.                         *)
(***************************************************************************)
EXTENDS Integers, Sequences, FiniteSets, TLC

VARIABLES
  items,   \* the input of the pure function applied: a flat node list
  op,      \* the pure function applied, "none" before
  arg,     \* its other argument
  out,     \* its result
  store,   \* storage: brainlift id -> << >> or << [sections, connections] >>
  req,     \* the analyze requests: slot -> the state of its handler
  quota,   \* how many more requests of each kind the clients send
  llm      \* the replies the model endpoint may give

treeVars == << items, op, arg, out >>

appVars == << store, req, quota, llm >>

vars == << items, op, arg, out, store, req, quota, llm >>

(***************************************************************************)
(* Bounds of the model.                                                    *)
(***************************************************************************)
\* longest flat node list handed to the tree functions
MaxNodes == 3
\* largest priority ("pr") of a node
MaxPr == 1
\* analyze requests sent during a run of the service
MaxRequests == 2
\* delete requests sent during a run of the service
MaxDeletes == 1
\* most tier-3 items of a document analysed on its own
MaxItems == 6
\* most candidates in a reply of the model
MaxCandidates == 2

(***************************************************************************)
(* Strings.                                                                *)
(***************************************************************************)
Range(s) == { s[i] : i \in DOMAIN s }

UpperToLower ==
  [ A |-> "a", B |-> "b", C |-> "c", D |-> "d", E |-> "e", F |-> "f", G |-> "g", H |-> "h", I |-> "i", J |-> "j", K |-> "k", L |-> "l", M |-> "m", N |-> "n", O |-> "o", P |-> "p", Q |-> "q", R |-> "r", S |-> "s", T |-> "t", U |-> "u", V |-> "v", W |-> "w", X |-> "x", Y |-> "y", Z |-> "z" ]


\* str.lower(), one character
LowerChar(c) == IF c \in DOMAIN UpperToLower THEN UpperToLower[c] ELSE c

\* str.lower()
Lower(s) == [ i \in DOMAIN s |-> LowerChar(s[i]) ]

Whitespace == { " " }

RECURSIVE LStrip(_)
LStrip(s) ==
  IF s # << >> /\ Head(s) \in Whitespace THEN LStrip(Tail(s)) ELSE s

RECURSIVE RStrip(_)
RStrip(s) ==
  IF s # << >> /\ s[Len(s)] \in Whitespace
  THEN RStrip(SubSeq(s, 1, Len(s) - 1))
  ELSE s

\* str.strip()
Strip(s) == RStrip(LStrip(s))

\* the Python test  sub in s  on strings
Contains(sub, s) ==
  \E i \in 0 .. (Len(s) - Len(sub)) : SubSeq(s, i + 1, i + Len(sub)) = sub

(***************************************************************************)
(* main.py: section name variants.                                         *)
(***************************************************************************)
SECTION_VARIANTS ==
  [ owners |-> <<
        <<"O","w","n","e","r">>,
        <<"O","w","n","e","r","s">>,
        <<"o","w","n","e","r">>,
        <<"o","w","n","e","r","s">> >>,
    purpose |-> <<
        <<"P","u","r","p","o","s","e">>,
        <<"p","u","r","p","o","s","e">>,
        <<"M","i","s","s","i","o","n">>,
        <<"m","i","s","s","i","o","n">> >>,
    experts |-> <<
        <<"E","x","p","e","r","t","s">>,
        <<"e","x","p","e","r","t","s">>,
        <<"E","x","p","e","r","t">>,
        <<"e","x","p","e","r","t">> >>,
    dok2 |-> <<
        <<"D","O","K","2"," ","-"," ","K","n","o","w","l","e","d","g","e"," ","T","r","e","e">>,
        <<"D","O","K","2"," ","-"," ","k","n","o","w","l","e","d","g","e"," ","t","r","e","e">>,
        <<"D","O","K","2","-","K","n","o","w","l","e","d","g","e"," ","T","r","e","e">>,
        <<"D","O","K","2">>,
        <<"K","n","o","w","l","e","d","g","e"," ","T","r","e","e">>,
        <<"k","n","o","w","l","e","d","g","e"," ","t","r","e","e">>,
        <<"D","O","K","1"," ","a","n","d"," ","D","O","K","2">>,
        <<"D","O","K","1","/","D","O","K","2">> >>,
    dok3 |-> <<
        <<"D","O","K","3"," ","-"," ","I","n","s","i","g","h","t","s">>,
        <<"D","O","K","3","-","I","n","s","i","g","h","t","s">>,
        <<"D","O","K","3"," ","-"," ","i","n","s","i","g","h","t","s">>,
        <<"D","O","K","3">>,
        <<"I","n","s","i","g","h","t","s">>,
        <<"i","n","s","i","g","h","t","s">> >>,
    dok4 |-> <<
        <<"D","O","K","4"," ","-"," ","S","P","O","V">>,
        <<"D","O","K","4","-","S","P","O","V">>,
        <<"D","O","K","4"," ","-"," ","S","P","O","V","s">>,
        <<"D","O","K","4","-","S","P","O","V","s">>,
        <<"D","O","K","4">>,
        <<"S","P","O","V">>,
        <<"S","P","O","V","s">>,
        <<"S","p","i","k","y","P","O","V","s">>,
        <<"S","p","i","k","y"," ","P","O","V","s">>,
        <<"S","p","i","k","y","P","O","V">> >> ]

SectionKeys == DOMAIN SECTION_VARIANTS

(***************************************************************************)
(* main.py: the flat node list.  A node is a record                        *)
(*   [id, prnt, nm, no, pr]                                                *)
(* with prnt = << >> for a missing or null parent, no = << >> for no note  *)
(* and pr = << >> for a missing priority.  Ids are the positions of the    *)
(* nodes in the list, so they are unique and never falsy.                  *)
(***************************************************************************)

\* x.get("pr", 0), the sort key of every sorted(...) call
PrKey(x) == IF x.pr = << >> THEN 0 ELSE x.pr[1]

\* sorted(s, key=PrKey) is stable: x goes after every element whose key is
\* not larger than its own
InsertByPr(x, s) ==
  LET n == Cardinality({ i \in DOMAIN s : PrKey(s[i]) <= PrKey(x) })
  IN  SubSeq(s, 1, n) \o << x >> \o SubSeq(s, n + 1, Len(s))

RECURSIVE sorted(_)
sorted(s) ==
  IF s = << >> THEN << >>
  ELSE InsertByPr(s[Len(s)], sorted(SubSeq(s, 1, Len(s) - 1)))

\* build_tree: "elif not parent_id"
IsRootParent(parent_id) == parent_id = << >>

RECURSIVE build_tree_loop(_, _, _, _)
build_tree_loop(its, k, items_by_id, tree) ==
  IF k > Len(its) THEN [ items_by_id |-> items_by_id, tree |-> tree ]
  ELSE LET item == its[k]
           parent_id == item.prnt
       IN  IF parent_id # << >> /\ parent_id[1] \in DOMAIN items_by_id
           THEN build_tree_loop(its, k + 1,
                  [ items_by_id EXCEPT ![parent_id[1]] = Append(@, item.id) ],
                  tree)
           ELSE IF IsRootParent(parent_id)
           THEN build_tree_loop(its, k + 1, items_by_id, Append(tree, item.id))
           ELSE build_tree_loop(its, k + 1, items_by_id, tree)

\* items_by_id maps an id to the ids of the "children" list of its node;
\* tree is the returned dict, as the list of its keys in insertion order
build_tree(its) ==
  build_tree_loop(its, 1, [ i \in { its[k].id : k \in DOMAIN its } |-> << >> ], << >>)

\* find_section_node: the name test (mutant: the name is not lower-cased)
VariantInNameCased(variant, name) == Contains(Lower(variant), Strip(name))

VariantInName(variant, name) == Contains(Lower(variant), Lower(Strip(name)))

\* the smallest element of a non-empty set of positions
First(S) == CHOOSE k \in S : \A j \in S : k <= j

\* << >> is None, << node >> the node found
find_section_node(its, section_variants) ==
  LET roots == { k \in DOMAIN its : its[k].prnt = << >> }
  IN  IF roots = {} THEN << >>
      ELSE LET root_id == its[First(roots)].id
               hits == { k \in DOMAIN its :
                           /\ its[k].prnt = << root_id >>
                           /\ \E v \in DOMAIN section_variants :
                                VariantInName(section_variants[v], its[k].nm) }
           IN  IF hits = {} THEN << >> ELSE << its[First(hits)] >>

get_node_children(its, parent_id) ==
  LET IsChild(item) == item.prnt = << parent_id >>
  IN  SelectSeq(its, IsChild)

\* "  " * level
RECURSIVE Indent(_)
Indent(level) == IF level = 0 THEN << >> ELSE << " ", " " >> \o Indent(level - 1)

\* the line a rendering ends with when Python's recursion limit is hit
RecursionError == << "RecursionError" >>

\* A text is the sequence of its lines, each ending in a newline.  With
\* unique ids a node has at most Len(its) - 1 ancestors, so the depth test
\* only guards the recursion against lists that break that.
RECURSIVE get_node_content_recursive(_, _, _)
RECURSIVE RenderAll(_, _, _)
get_node_content_recursive(its, node, level) ==
  LET indent == Indent(level)
      name == Strip(node.nm)
      note == IF node.no # << >> THEN Strip(node.no) ELSE << >>
      content == << indent \o << "-", " " >> \o name >>
                 \o (IF note # << >> THEN << indent \o << " ", " " >> \o note >>
                     ELSE << >>)
      children == get_node_children(its, node.id)
  IN  IF level > Len(its) THEN << RecursionError >>
      ELSE content \o RenderAll(its, sorted(children), level + 1)

RenderAll(its, nodes, level) ==
  IF nodes = << >> THEN << >>
  ELSE get_node_content_recursive(its, Head(nodes), level)
       \o RenderAll(its, Tail(nodes), level)

\* str.strip() of a text: blank lines at both ends go, the first line loses
\* its leading and the last its trailing whitespace
RECURSIVE StripText(_)
StripText(text) ==
  IF text = << >> THEN << >>
  ELSE IF Strip(text[1]) = << >> THEN StripText(Tail(text))
  ELSE IF Strip(text[Len(text)]) = << >>
       THEN StripText(SubSeq(text, 1, Len(text) - 1))
  ELSE IF Len(text) = 1 THEN << Strip(text[1]) >>
  ELSE << LStrip(text[1]) >> \o SubSeq(text, 2, Len(text) - 1)
       \o << RStrip(text[Len(text)]) >>

\* parse_dok_section: "index=idx + 1" (mutant: the enumerate index itself)
ItemIndexZeroBased(idx) == idx - 1

\* idx is the 1-based position in the sorted children, enumerate's idx + 1
ItemIndex(idx) == idx

\* one DOKItem; content is the lines of name and note
DOKItem(its, child, idx) ==
  LET name == Strip(child.nm)
      note == IF child.no # << >> THEN Strip(child.no) ELSE << >>
      sub_children == sorted(get_node_children(its, child.id))
  IN  [ index |-> ItemIndex(idx),
        content |-> IF note # << >> THEN << name, note >> ELSE << name >>,
        children |-> [ j \in DOMAIN sub_children |->
                         StripText(get_node_content_recursive(its, sub_children[j], 0)) ] ]

parse_dok_section(its, section_node) ==
  LET children == sorted(get_node_children(its, section_node.id))
  IN  [ raw |-> get_node_content_recursive(its, section_node, 0),
        items |-> [ idx \in DOMAIN children |-> DOKItem(its, children[idx], idx) ] ]

Untitled == << "Untitled BrainLift" >>

extract_root_name(its) ==
  LET roots == { k \in DOMAIN its : its[k].prnt = << >> }
  IN  IF roots = {} THEN Untitled ELSE Strip(its[First(roots)].nm)

\* a plain-text section: the rendering of the node found, else ""
PlainSection(its, key) ==
  LET node == find_section_node(its, SECTION_VARIANTS[key])
  IN  IF node # << >> THEN get_node_content_recursive(its, node[1], 0) ELSE << >>

\* a DOK section: << >> is None
ParsedSection(its, key) ==
  LET node == find_section_node(its, SECTION_VARIANTS[key])
  IN  IF node # << >> THEN << parse_dok_section(its, node[1]) >> ELSE << >>

extract_sections(its) ==
  [ owners |-> PlainSection(its, "owners"),
    purpose |-> PlainSection(its, "purpose"),
    experts |-> PlainSection(its, "experts"),
    dok2_knowledge_tree |-> ParsedSection(its, "dok2"),
    dok3_insights |-> ParsedSection(its, "dok3"),
    dok4_spov |-> ParsedSection(its, "dok4") ]

\* whether a rendering of the sections ran into the recursion limit
Overflowed(sections) ==
  LET texts == { sections.owners, sections.purpose, sections.experts }
               \cup { s[1].raw : s \in { sections.dok2_knowledge_tree,
                                         sections.dok3_insights,
                                         sections.dok4_spov } \ { << >> } }
  IN  \E t \in texts : \E i \in DOMAIN t : t[i] = RecursionError

\* extract_sections as its caller sees it: the value returned, or the
\* exception raised
ExtractOutcome(its) ==
  LET sections == extract_sections(its)
  IN  IF Overflowed(sections)
      THEN [ status |-> "RecursionError", sections |-> << >> ]
      ELSE [ status |-> "ok", sections |-> << sections >> ]

(***************************************************************************)
(* groq_service.py: one model call.                                        *)
(*                                                                         *)
(* A reply of the model endpoint is [error, content]: error when the call  *)
(* raised (transport error, timeout), else the text, as a sequence of      *)
(* tokens [t, v]:                                                          *)
(*   "think"   a whole <think>...</think> block                            *)
(*   "fence"   a ``` marker                                                *)
(*   "lang"    the word json after a fence                                 *)
(*   "prose"   text without braces                                         *)
(*   "braces"  brace-delimited text that is not JSON                       *)
(*   "json"    the JSON text of the value v                                *)
(* A JSON value is [kind, has_connections, is_list, entries]: kind is      *)
(* "object", "array", "number" or "null"; an object may have the key       *)
(* "connections", whose value may be a list, of the entries given.  An     *)
(* entry is [is_dict, id, hashable_id, type]: id and type are << >> when   *)
(* the key is missing; hashable_id is FALSE for an id that is a list or    *)
(* an object.                                                              *)
(***************************************************************************)
MAX_CONCURRENT_REQUESTS == 5

MAX_CONNECTIONS_PER_NODE == 2

NoJson ==
  [ kind |-> "null", has_connections |-> FALSE, is_list |-> FALSE, entries |-> << >> ]

\* content.startswith("{")
StartsWithBrace(content) ==
  /\ content # << >>
  /\ \/ content[1].t = "braces"
     \/ content[1].t = "json" /\ content[1].v.kind = "object"

\* re.sub(r"<think>.*?</think>", "", content)
StripThink(content) ==
  LET NotThink(tok) == tok.t # "think" IN SelectSeq(content, NotThink)

\* content.split("```")[1], less a leading "json", when content starts with
\* a fence
StripFence(content) ==
  IF content # << >> /\ content[1].t = "fence"
  THEN LET rest == Tail(content)
           fences == { i \in DOMAIN rest : rest[i].t = "fence" }
           part == IF fences = {} THEN rest
                   ELSE SubSeq(rest, 1, First(fences) - 1)
       IN  IF part # << >> /\ part[1].t = "lang" THEN Tail(part) ELSE part
  ELSE content

\* re.search(r"\{.*\}", content, re.DOTALL), greedy: from the first opening
\* brace to the last closing one
ExtractBraces(content) ==
  LET braces == { i \in DOMAIN content :
                    \/ content[i].t = "braces"
                    \/ content[i].t = "json" /\ content[i].v.kind = "object" }
  IN  IF StartsWithBrace(content) \/ braces = {} THEN content
      ELSE SubSeq(content, First(braces),
                  CHOOSE b \in braces : \A j \in braces : j <= b)

\* json.loads: << >> for a JSONDecodeError
json_loads(content) ==
  IF Len(content) = 1 /\ content[1].t = "json" THEN << content[1].v >> ELSE << >>

\* _call_llm without the semaphore: << >> is None, << v >> the parsed value.
\* json.loads of the text null is None as well.
_call_llm(reply) ==
  IF reply.error \/ reply.content = << >> THEN << >>
  ELSE LET content == ExtractBraces(StripFence(StripThink(reply.content)))
           result == json_loads(content)
       IN  IF content = << >> THEN << >>
           ELSE IF result # << >> /\ result[1].kind = "null" THEN << >>
           ELSE result

\* "valid_connections[:1]" (mutant: the last valid candidate)
EnforceMaxLast(valid_connections) ==
  IF valid_connections = << >> THEN << >>
  ELSE << valid_connections[Len(valid_connections)] >>

EnforceMax(valid_connections) ==
  IF valid_connections = << >> THEN << >> ELSE << valid_connections[1] >>

\* conn.get("type", "supports")
TypeOf(conn) == IF conn.type = << >> THEN "supports" ELSE conn.type[1]

\* 'result and "connections" in result' raises TypeError on a number;
\* 'conn.get("id") in valid_indices' raises it on an unhashable id
Raises(result) ==
  /\ result # << >>
  /\ \/ result[1].kind = "number"
     \/ /\ result[1].kind = "object" /\ result[1].has_connections
        /\ result[1].is_list
        /\ \E i \in DOMAIN result[1].entries :
             result[1].entries[i].is_dict /\ ~ result[1].entries[i].hashable_id

\* the candidates kept by the loop over result["connections"]
ValidConnections(result, dok_items) ==
  LET valid_indices == { dok_items[i].index : i \in DOMAIN dok_items }
      IsValid(conn) == conn.is_dict /\ conn.id # << >> /\ conn.id[1] \in valid_indices
      kept == SelectSeq(result[1].entries, IsValid)
  IN  [ i \in DOMAIN kept |-> [ id |-> kept[i].id[1], type |-> TypeOf(kept[i]) ] ]

\* what follows "result = await self._call_llm(prompt)":
\* [raised, connections]
FindConnections(result, dok_items) ==
  IF Raises(result) THEN [ raised |-> TRUE, connections |-> << >> ]
  ELSE IF /\ result # << >>
          /\ result[1].kind = "object" /\ result[1].has_connections
          /\ result[1].is_list
       THEN [ raised |-> FALSE,
              connections |-> EnforceMax(ValidConnections(result, dok_items)) ]
       ELSE [ raised |-> FALSE, connections |-> << >> ]

\* "if not dok2_items: return []" comes before the model call
find_dok2_connections_for_dok3(reply, dok2_items) ==
  IF dok2_items = << >> THEN [ raised |-> FALSE, connections |-> << >> ]
  ELSE FindConnections(_call_llm(reply), dok2_items)

find_dok3_connections_for_dok4(reply, dok3_items) ==
  IF dok3_items = << >> THEN [ raised |-> FALSE, connections |-> << >> ]
  ELSE FindConnections(_call_llm(reply), dok3_items)

\* "node_counts[node_id] < MAX_CONNECTIONS_PER_NODE" (mutant: <=)
UnderCapInclusive(count) == count <= MAX_CONNECTIONS_PER_NODE

UnderCap(count) == count < MAX_CONNECTIONS_PER_NODE

RECURSIVE _limit_connections_per_node(_, _)
_limit_connections_per_node(connections, key) ==
  IF connections = << >> THEN << >>
  ELSE LET conn == connections[Len(connections)]
           limited == _limit_connections_per_node(
                        SubSeq(connections, 1, Len(connections) - 1), key)
           node_count == Cardinality({ i \in DOMAIN limited :
                                         limited[i][key] = conn[key] })
       IN  IF UnderCap(node_count) THEN Append(limited, conn) ELSE limited

\* the reasoning text of a connection
Reasoning(type) ==
  IF type = "supports" THEN "Direct support identified"
  ELSE "Direct contradiction identified"

\* the loop below with every connection given the index of the first item
\* (mutant: the target is not taken from the loop variable)
RECURSIVE ZipConnectionsFirstTarget(_, _)
ZipConnectionsFirstTarget(dok_items, results) ==
  IF dok_items = << >> \/ results = << >> THEN << >>
  ELSE LET n == IF Len(dok_items) < Len(results) THEN Len(dok_items)
                ELSE Len(results)
       IN  ZipConnectionsFirstTarget(SubSeq(dok_items, 1, n - 1),
                                     SubSeq(results, 1, n - 1))
           \o [ j \in DOMAIN results[n] |->
                  [ source_index |-> results[n][j].id,
                    target_index |-> dok_items[1].index,
                    type |-> results[n][j].type,
                    score |-> 95,
                    reasoning |-> Reasoning(results[n][j].type) ] ]

\* the loop "for dok3, connections in zip(dok3_items, results)": results[i]
\* is the list the i-th call returned
RECURSIVE ZipConnections(_, _)
ZipConnections(dok_items, results) ==
  IF dok_items = << >> \/ results = << >> THEN << >>
  ELSE LET n == IF Len(dok_items) < Len(results) THEN Len(dok_items)
                ELSE Len(results)
           target == dok_items[n]
       IN  ZipConnections(SubSeq(dok_items, 1, n - 1), SubSeq(results, 1, n - 1))
           \o [ j \in DOMAIN results[n] |->
                  [ source_index |-> results[n][j].id,
                    target_index |-> target.index,
                    type |-> results[n][j].type,
                    score |-> 95,
                    reasoning |-> Reasoning(results[n][j].type) ] ]

\* the value analyze_all_connections returns, from the two raw lists
LimitedConnections(dok2_to_dok3, dok3_to_dok4) ==
  [ dok2_to_dok3 |->
      _limit_connections_per_node(
        _limit_connections_per_node(dok2_to_dok3, "source_index"), "target_index"),
    dok3_to_dok4 |->
      _limit_connections_per_node(
        _limit_connections_per_node(dok3_to_dok4, "source_index"), "target_index") ]

(***************************************************************************)
(* storage.py and the analyze handler of main.py.                          *)
(*                                                                         *)
(* A stored record keeps the sections of the document, reduced to the      *)
(* items of its three tiers (an item to its index: the content only feeds  *)
(* the prompt), and the cached connections, << >> when None.  storage.py   *)
(* declares its functions "async def f(session, ...)"; main.py calls them  *)
(* as "storage.f(...)" with no session, so each call raises TypeError      *)
(* while Python binds its arguments, before any row is read or written.    *)
(*                                                                         *)
(* The state of a handler is its arguments (id, force), its local          *)
(* variables (brainlift, the three item lists, the raw connection lists,   *)
(* connections: what analyze_all_connections returned), the semaphore and  *)
(* the tasks of its GroqService (calls23, calls34), and its response.      *)
(***************************************************************************)
BrainliftIds == { "b1", "b2" }

Slots == 1 .. MaxRequests

\* the items of a tier of n items, as parse_dok_section numbers them
TierItems(n) == [ i \in 1 .. n |-> [ index |-> i ] ]

\* a tier section: None without items
TierSection(n) == IF n = 0 THEN << >> ELSE << [ items |-> TierItems(n) ] >>

Sections(n2, n3, n4) ==
  [ dok2_knowledge_tree |-> TierSection(n2),
    dok3_insights |-> TierSection(n3),
    dok4_spov |-> TierSection(n4) ]

\* the parameters storage.py declares for its functions
Signature ==
  [ save_brainlift |-> << "session", "brainlift_id", "name", "url", "sections" >>,
    get_brainlift |-> << "session", "brainlift_id" >>,
    save_connections |-> << "session", "brainlift_id", "connections" >>,
    delete_brainlift |-> << "session", "brainlift_id" >> ]

\* Python binds the arguments of a call to the parameters before the body
\* runs: a call that leaves a parameter without a value raises TypeError.
\* main.py calls the storage functions with the arguments in args (no
\* session), and an exception the handler does not catch is answered 500.
CallRaises(function, args) == Len(args) < Len(Signature[function])

\* save_brainlift: the table after the call; a new row has connections=None
\* and an existing one keeps its connections
save_brainlift(st, brainlift_id, sections) ==
  [ st EXCEPT ![brainlift_id] =
      << [ sections |-> sections,
           connections |-> IF @ = << >> THEN << >> ELSE @[1].connections ] >> ]

\* get_brainlift: the row of the id, None when there is none
get_brainlift(st, brainlift_id) == st[brainlift_id]

\* (mutant: a missing row is created)
save_connections_upsert(st, brainlift_id, connections) ==
  [ st EXCEPT ![brainlift_id] =
      IF @ = << >>
      THEN << [ sections |-> Sections(0, 0, 0), connections |-> << connections >> ] >>
      ELSE << [ @[1] EXCEPT !.connections = << connections >> ] >> ]

\* save_connections: the table after the call ("if not brainlift: return
\* False")
save_connections(st, brainlift_id, connections) ==
  IF st[brainlift_id] = << >> THEN st
  ELSE [ st EXCEPT ![brainlift_id] =
           << [ @[1] EXCEPT !.connections = << connections >> ] >> ]

\* delete_brainlift: the table after the call
delete_brainlift(st, brainlift_id) == [ st EXCEPT ![brainlift_id] = << >> ]

\* what save_connections and delete_brainlift return: whether the row was
\* there
Found(st, brainlift_id) == st[brainlift_id] # << >>

\* sections.get(key, {}).get("items", []) if sections.get(key) else []
ItemsOf(sections, key) ==
  IF sections[key] # << >> THEN sections[key][1].items ELSE << >>

ConnectionTypes == { "supports", "contradicts" }

\* ConnectionAnalysis(**connections): pydantic rejects a type outside the
\* ConnectionType enum, and the handler then fails with status 500
ValidAnalysis(connections) ==
  \A key \in { "dok2_to_dok3", "dok3_to_dok4" } :
    \A i \in DOMAIN connections[key] :
      connections[key][i].type \in ConnectionTypes

NoResponse == [ status |-> 0, body |-> << >> ]

HTTPException(status) == [ status |-> status, body |-> << >> ]

ConnectionAnalysis(connections) ==
  IF ValidAnalysis(connections)
  THEN [ status |-> 200, body |-> << connections >> ]
  ELSE HTTPException(500)

\* a model call: UNSENT (task created, or waiting for a permit), SENT
\* (permit held, request on the wire), then PARSED (one connection), EMPTY
\* (a parsed reply without a valid connection), FAILED (_call_llm returned
\* None) or RAISED (find_dok*_connections_for_dok* raised)
Unsent(n) == [ i \in 1 .. n |-> [ state |-> "UNSENT", connections |-> << >> ] ]

Final == { "PARSED", "EMPTY", "FAILED", "RAISED" }

\* a run of the analysis: started by the handler (http) for an id, or by a
\* call of analyze_all_connections alone
IdleRequest ==
  [ pc |-> "idle", http |-> FALSE, id |-> "", force |-> FALSE,
    brainlift |-> << >>,
    dok2_items |-> << >>, dok3_items |-> << >>, dok4_items |-> << >>,
    semaphore |-> 0,
    calls23 |-> << >>, calls34 |-> << >>,
    dok2_to_dok3 |-> << >>, dok3_to_dok4 |-> << >>, connections |-> << >>,
    response |-> NoResponse ]

\* the handler returns or raises
Respond(rec, response) == [ rec EXCEPT !.pc = "done", !.response = response ]

\* an exception leaves analyze_all_connections; in the handler nothing
\* catches it
Raise(rec) ==
  IF rec.http THEN Respond(rec, HTTPException(500))
  ELSE [ rec EXCEPT !.pc = "raised" ]

\* analyze_all_connections from "Limit connections per node" on; in the
\* handler, then "storage.save_connections(brainlift_id, connections)" and
\* the response
Return(r, rec) ==
  LET connections == LimitedConnections(rec.dok2_to_dok3, rec.dok3_to_dok4)
      returned == [ rec EXCEPT !.connections = << connections >> ]
  IN  IF ~ rec.http
      THEN /\ req' = [ req EXCEPT ![r] = [ returned EXCEPT !.pc = "done" ] ]
           /\ UNCHANGED store
      ELSE IF CallRaises("save_connections", << rec.id, connections >>)
      THEN /\ req' = [ req EXCEPT ![r] = Respond(returned, HTTPException(500)) ]
           /\ UNCHANGED store
      ELSE /\ store' = save_connections(store, rec.id, connections)
           /\ req' = [ req EXCEPT ![r] =
                          Respond(returned, ConnectionAnalysis(connections)) ]

\* analyze_all_connections from "if dok4_items and dok3_items" on
Tier4(r, rec) ==
  IF rec.dok4_items # << >> /\ rec.dok3_items # << >>
  THEN /\ req' = [ req EXCEPT ![r] =
                     [ rec EXCEPT !.pc = "gather34",
                                  !.calls34 = Unsent(Len(rec.dok4_items)) ] ]
       /\ UNCHANGED store
  ELSE Return(r, rec)

\* analyze_all_connections from its start
Tier3(r, rec) ==
  IF rec.dok3_items # << >> /\ rec.dok2_items # << >>
  THEN /\ req' = [ req EXCEPT ![r] =
                     [ rec EXCEPT !.pc = "gather23",
                                  !.calls23 = Unsent(Len(rec.dok3_items)) ] ]
       /\ UNCHANGED store
  ELSE Tier4(r, rec)

\* GroqService.__init__: the value of the semaphore of a new engine
GroqService == MAX_CONCURRENT_REQUESTS

\* the cache test of the handler,
\* 'brainlift.get("connections") and not force': a stored connections
\* dict has its two keys, so it is truthy whenever it is not None
UseCache(brainlift, force) == brainlift.connections # << >> /\ ~ force

\* analyze_all_connections(dok2_items, dok3_items, dok4_items) on a new
\* GroqService, up to its first suspension; the tiers are those of arg
analyze_all_connections(r) ==
  /\ quota.analyze > 0
  /\ req[r].pc = "idle"
  /\ \A q \in Slots : q < r => req[q].pc # "idle"
  /\ quota' = [ quota EXCEPT !.analyze = @ - 1 ]
  /\ UNCHANGED << treeVars, llm >>
  /\ Tier3(r, [ req[r] EXCEPT
                  !.dok2_items = ItemsOf(arg, "dok2_knowledge_tree"),
                  !.dok3_items = ItemsOf(arg, "dok3_insights"),
                  !.dok4_items = ItemsOf(arg, "dok4_spov"),
                  !.semaphore = GroqService ])

\* POST /brainlifts/{id}/analyze, up to its first suspension.  Its first
\* statement, "storage.get_brainlift(brainlift_id)", raises.
analyze_connections(r, brainlift_id, force) ==
  LET brainlift == get_brainlift(store, brainlift_id)
      called == [ req[r] EXCEPT !.http = TRUE, !.id = brainlift_id,
                                !.force = force ]
      rec == [ called EXCEPT !.brainlift = brainlift ]
  IN  /\ quota.analyze > 0
      /\ req[r].pc = "idle"
      /\ \A q \in Slots : q < r => req[q].pc # "idle"
      /\ quota' = [ quota EXCEPT !.analyze = @ - 1 ]
      /\ UNCHANGED << treeVars, llm >>
      /\ IF CallRaises("get_brainlift", << brainlift_id >>)
         THEN /\ req' = [ req EXCEPT ![r] = Respond(called, HTTPException(500)) ]
              /\ UNCHANGED store
         ELSE IF brainlift = << >>
         THEN /\ req' = [ req EXCEPT ![r] = Respond(rec, HTTPException(404)) ]
              /\ UNCHANGED store
         ELSE IF UseCache(brainlift[1], force)
         THEN /\ req' = [ req EXCEPT ![r] =
                            Respond(rec, ConnectionAnalysis(brainlift[1].connections[1])) ]
              /\ UNCHANGED store
         ELSE LET sections == brainlift[1].sections
                  dok2_items == ItemsOf(sections, "dok2_knowledge_tree")
                  dok3_items == ItemsOf(sections, "dok3_insights")
                  dok4_items == ItemsOf(sections, "dok4_spov")
              IN  IF dok2_items = << >> /\ dok3_items = << >> /\ dok4_items = << >>
                  THEN /\ req' = [ req EXCEPT ![r] = Respond(rec, HTTPException(400)) ]
                       /\ UNCHANGED store
                  ELSE Tier3(r, [ rec EXCEPT !.dok2_items = dok2_items,
                                             !.dok3_items = dok3_items,
                                             !.dok4_items = dok4_items,
                                             !.semaphore = GroqService ])

\* the replies the model endpoint gives
Tok(t) == [ t |-> t, v |-> NoJson ]

JsonTok(v) == [ t |-> "json", v |-> v ]

Cand(id, type) == [ is_dict |-> TRUE, id |-> id, hashable_id |-> TRUE, type |-> type ]

Obj(entries) ==
  [ kind |-> "object", has_connections |-> TRUE, is_list |-> TRUE, entries |-> entries ]

Number ==
  [ kind |-> "number", has_connections |-> FALSE, is_list |-> FALSE, entries |-> << >> ]

Text(content) == [ error |-> FALSE, content |-> content ]

Replies ==
  { \* the call raises or times out
    [ error |-> TRUE, content |-> << >> ],
    \* prose, no JSON
    Text(<< Tok("prose") >>),
    \* a JSON number
    Text(<< JsonTok(Number) >>),
    \* {"connections": []}
    Text(<< JsonTok(Obj(<< >>)) >>),
    \* <think>...</think>{"connections": [{"id": 1, "type": "contradicts"}]}
    Text(<< Tok("think"), JsonTok(Obj(<< Cand(<< 1 >>, << "contradicts" >>) >>)) >>),
    \* a fenced {"connections": [{"id": 1}]}
    Text(<< Tok("fence"), Tok("lang"), JsonTok(Obj(<< Cand(<< 1 >>, << >>) >>)),
            Tok("fence") >>),
    \* {"connections": [{"id": 99, "type": "supports"}]}
    Text(<< JsonTok(Obj(<< Cand(<< 99 >>, << "supports" >>) >>)) >>),
    \* {"connections": [{"id": 99}, {"id": 2, "type": "supports"}]}
    Text(<< JsonTok(Obj(<< Cand(<< 99 >>, << >>),
                           Cand(<< 2 >>, << "supports" >>) >>)) >>),
    \* prose around {"connections": [{"id": 1, "type": "relates"}]}
    Text(<< Tok("prose"), JsonTok(Obj(<< Cand(<< 1 >>, << "relates" >>) >>)),
            Tok("prose") >>) }

\* the replies given for the items of a long tier: an error, a JSON number,
\* one connection
FewReplies ==
  { reply \in Replies :
      \/ reply.error
      \/ reply.content = << JsonTok(Number) >>
      \/ reply.content[1].t = "think" }

\* the calls of the gather a request waits in, and the items they are for
Gathers == { "calls23", "calls34" }

\* the items offered to the model in the calls of a gather
Offered(rec, g) == IF g = "calls23" THEN rec.dok2_items ELSE rec.dok3_items

\* 'async with self.semaphore' (mutant: a permit is taken even when none is
\* left)
CanAcquireAlways(value) == TRUE

\* asyncio.Semaphore.acquire returns at once when the value is positive
CanAcquire(value) == value > 0

\* A task enters 'async with self.semaphore' and sends its request.  The
\* tasks of a gather start in the order of the items and waiters are woken
\* first-in first-out, so the next call to get a permit is the first UNSENT.
Acquire(r, g) ==
  LET calls == req[r][g]
      unsent == { i \in DOMAIN calls : calls[i].state = "UNSENT" }
  IN  /\ unsent # {}
      /\ CanAcquire(req[r].semaphore)
      /\ req' = [ req EXCEPT ![r][g][First(unsent)].state = "SENT",
                             ![r].semaphore = @ - 1 ]
      /\ UNCHANGED << store, quota, llm >>
      /\ UNCHANGED treeVars

\* the state a call ends in
CallState(reply, found) ==
  IF found.raised THEN "RAISED"
  ELSE IF found.connections # << >> THEN "PARSED"
  ELSE IF _call_llm(reply) = << >> THEN "FAILED"
  ELSE "EMPTY"

\* The model call of a task returns or raises: _call_llm cleans and parses
\* the reply and leaves 'async with', the rest of find_dok*_connections
\* runs, and the task ends.
Complete(r, g, i, reply) ==
  LET found == IF g = "calls23"
               THEN find_dok2_connections_for_dok3(reply, Offered(req[r], g))
               ELSE find_dok3_connections_for_dok4(reply, Offered(req[r], g))
  IN  /\ i \in DOMAIN req[r][g]
      /\ req[r][g][i].state = "SENT"
      /\ req' = [ req EXCEPT ![r][g][i] =
                               [ state |-> CallState(reply, found),
                                 connections |-> found.connections ],
                             ![r].semaphore = @ + 1 ]
      /\ UNCHANGED << store, quota, llm >>
      /\ UNCHANGED treeVars

\* (mutant: the lists in the reverse of the order of the calls)
ResultsReversed(calls) ==
  [ i \in DOMAIN calls |-> calls[Len(calls) + 1 - i].connections ]

\* the lists the calls of a gather returned, in the order of the calls
Results(calls) == [ i \in DOMAIN calls |-> calls[i].connections ]

\* (mutant: the gather returns as soon as one task has returned)
GatherDoneFirst(calls) ==
  \E i \in DOMAIN calls : calls[i].state \in Final \ { "RAISED" }

\* 'await asyncio.gather(...)' returns when every task has returned
GatherDone(calls) ==
  \A i \in DOMAIN calls : calls[i].state \in Final \ { "RAISED" }

\* asyncio.gather raises as soon as a task has raised, and
\* analyze_all_connections has no except clause around it.  The other tasks
\* are not cancelled.
GatherRaises(r) ==
  /\ req[r].pc \in { "gather23", "gather34" }
  /\ \E g \in Gathers : \E i \in DOMAIN req[r][g] : req[r][g][i].state = "RAISED"
  /\ req' = [ req EXCEPT ![r] = Raise(@) ]
  /\ UNCHANGED << store, quota, llm >>
  /\ UNCHANGED treeVars

\* the first gather returns: the loop over zip(dok3_items, results), then
\* the tier-4 calls or the end of the analysis
Gather23Returns(r) ==
  /\ req[r].pc = "gather23"
  /\ GatherDone(req[r].calls23)
  /\ Tier4(r, [ req[r] EXCEPT !.dok2_to_dok3 =
                  ZipConnections(req[r].dok3_items, Results(req[r].calls23)) ])
  /\ UNCHANGED << quota, llm >>
  /\ UNCHANGED treeVars

\* the second gather returns
Gather34Returns(r) ==
  /\ req[r].pc = "gather34"
  /\ GatherDone(req[r].calls34)
  /\ Return(r, [ req[r] EXCEPT !.dok3_to_dok4 =
                   ZipConnections(req[r].dok4_items, Results(req[r].calls34)) ])
  /\ UNCHANGED << quota, llm >>
  /\ UNCHANGED treeVars

\* DELETE /brainlifts/{id}: "storage.delete_brainlift(brainlift_id)" raises
delete_brainlift_request(brainlift_id) ==
  /\ quota.delete > 0
  /\ quota' = [ quota EXCEPT !.delete = @ - 1 ]
  /\ store' = IF CallRaises("delete_brainlift", << brainlift_id >>)
              THEN store
              ELSE delete_brainlift(store, brainlift_id)
  /\ UNCHANGED << req, llm >>
  /\ UNCHANGED treeVars

\* no pure function is being applied
TreeIdle ==
  /\ items = << >>
  /\ op = "none"
  /\ arg = << >>
  /\ out = << >>

\* the service is not running
AppIdle ==
  /\ store = [ id \in BrainliftIds |-> << >> ]
  /\ req = [ r \in Slots |-> IdleRequest ]
  /\ quota = [ analyze |-> 0, delete |-> 0 ]
  /\ llm = {}

\* the documents of the service: at most one item in a tier
AppSections == { Sections(a, b, c) : a, b, c \in 0 .. 1 }

\* the connections column of a row: NULL, or a ConnectionSet an analysis
\* of the document returns
CachedConnections(sections) ==
  { << >>, << LimitedConnections(<< >>, << >>) >> }
  \cup { << LimitedConnections(
               ZipConnections(ItemsOf(sections, "dok3_insights"),
                              << << [ id |-> 1, type |-> type ] >> >>),
               << >>) >> :
           type \in IF ItemsOf(sections, "dok2_knowledge_tree") # << >>
                    THEN ConnectionTypes ELSE { } }

\* the documents analysed on their own, each with the replies the model
\* gives for it: short tiers with every reply, and a tier 3 and a tier 4
\* longer than the semaphore is wide
EngineInputs ==
  { [ sections |-> Sections(a, b, c), llm |-> Replies ] :
      a \in 0 .. 2, b \in { 0, 1, 3 }, c \in 0 .. 1 }
  \cup { [ sections |-> Sections(1, MaxItems, 0), llm |-> FewReplies ],
          [ sections |-> Sections(0, 1, MaxItems), llm |-> FewReplies ] }

\* the service over a table with one row, analysed or not
Init ==
  /\ TreeIdle
  /\ \E sections \in AppSections :
       \E connections \in CachedConnections(sections) :
         store = [ id \in BrainliftIds |->
                     IF id = "b1"
                     THEN << [ sections |-> sections, connections |-> connections ] >>
                     ELSE << >> ]
  /\ req = [ r \in Slots |-> IdleRequest ]
  /\ quota = [ analyze |-> MaxRequests, delete |-> MaxDeletes ]
  /\ llm = Replies

\* one analysis of one document, given to analyze_all_connections
InitEngine ==
  /\ items = << >>
  /\ op = "none"
  /\ out = << >>
  /\ \E input \in EngineInputs :
       /\ arg = input.sections
       /\ llm = input.llm
  /\ store = [ id \in BrainliftIds |-> << >> ]
  /\ req = [ r \in Slots |-> IdleRequest ]
  /\ quota = [ analyze |-> 1, delete |-> 0 ]

NextEngine ==
  \/ \E r \in Slots : analyze_all_connections(r)
  \/ \E r \in Slots, g \in Gathers : Acquire(r, g)
  \/ \E r \in Slots, g \in Gathers :
       \E i \in DOMAIN req[r][g], reply \in llm : Complete(r, g, i, reply)
  \/ \E r \in Slots : GatherRaises(r)
  \/ \E r \in Slots : Gather23Returns(r)
  \/ \E r \in Slots : Gather34Returns(r)

Next ==
  \/ \E r \in Slots, id \in BrainliftIds, force \in BOOLEAN :
       analyze_connections(r, id, force)
  \/ \E id \in BrainliftIds : delete_brainlift_request(id)

Spec == Init /\ [][Next]_vars

SpecEngine == InitEngine /\ [][NextEngine]_vars

(***************************************************************************)
(* find_dok2_connections_for_dok3 and find_dok3_connections_for_dok4       *)
(* applied to bounded replies: items is the list offered, arg the reply.   *)
(***************************************************************************)
CandidateIds == { << >>, << 1 >>, << 2 >>, << 99 >> }

CandidateTypes == { << >>, << "supports" >>, << "contradicts" >>, << "relates" >> }

\* the entries of a "connections" list: objects, a bare number, an object
\* whose id is a list
Candidates ==
  { Cand(id, type) : id \in CandidateIds, type \in CandidateTypes }
  \cup { [ is_dict |-> FALSE, id |-> << >>, hashable_id |-> TRUE, type |-> << >> ],
         [ is_dict |-> TRUE, id |-> << >>, hashable_id |-> FALSE, type |-> << >> ] }

CandidateLists(n) == [ 1 .. n -> Candidates ]

\* the ways a model wraps its JSON
Wrapped(v) ==
  { << JsonTok(v) >>,
    << Tok("think"), JsonTok(v) >>,
    << Tok("fence"), Tok("lang"), JsonTok(v), Tok("fence") >>,
    << Tok("prose"), JsonTok(v), Tok("prose") >> }

\* the replies whose JSON is an object with n "connections" entries
ObjectReplies(n) ==
  { Text(content) : content \in UNION { Wrapped(Obj(entries)) :
                                         entries \in CandidateLists(n) } }

\* the replies that are no such object
OtherReplies ==
  Replies
  \cup { Text(<< >>),
         Text(<< Tok("braces") >>),
         Text(<< JsonTok(NoJson) >>),
         Text(<< JsonTok(Obj(<< >>)), Tok("prose") >>),
         Text(<< JsonTok([ Obj(<< >>) EXCEPT !.has_connections = FALSE ]) >>),
         Text(<< JsonTok([ Obj(<< >>) EXCEPT !.is_list = FALSE ]) >>),
         Text(<< JsonTok([ Number EXCEPT !.kind = "array" ]) >>) }

InitReply ==
  /\ \E n \in 0 .. 2 : items = TierItems(n)
  /\ \/ arg \in OtherReplies
     \/ \E n \in 0 .. MaxCandidates : arg \in ObjectReplies(n)
  /\ op = "none"
  /\ out = << >>
  /\ AppIdle

ApplyFindDok2ForDok3 ==
  /\ op = "none"
  /\ op' = "find_dok2_connections_for_dok3"
  /\ out' = find_dok2_connections_for_dok3(arg, items)
  /\ UNCHANGED << items, arg >>
  /\ UNCHANGED appVars

ApplyFindDok3ForDok4 ==
  /\ op = "none"
  /\ op' = "find_dok3_connections_for_dok4"
  /\ out' = find_dok3_connections_for_dok4(arg, items)
  /\ UNCHANGED << items, arg >>
  /\ UNCHANGED appVars

NextReply == ApplyFindDok2ForDok3 \/ ApplyFindDok3ForDok4

SpecReply == InitReply /\ [][NextReply]_vars

(***************************************************************************)
(* Properties of the connection inference engine and of the analyze        *)
(* handler.                                                                *)
(***************************************************************************)

\* the model calls of a request that hold a permit and are on the wire
InFlight(r) ==
  UNION { { << g, i >> : i \in { j \in DOMAIN req[r][g] : req[r][g][j].state = "SENT" } } :
          g \in Gathers }

\* C1: during an analyze run the number of model calls in flight on the
\* engine is at most 5, and a call is issued only while fewer than 5 are.
C1_InFlightAtMostLimit ==
  \A r \in Slots :
    /\ Cardinality(InFlight(r)) <= 5
    /\ req[r].semaphore >= 0

\* five calls in flight and a sixth waiting for a permit
C1_Witness ==
  \E r \in Slots :
    /\ Cardinality(InFlight(r)) = 5
    /\ \E i \in DOMAIN req[r].calls23 : req[r].calls23[i].state = "UNSENT"

\* the calls of a request, of both gathers
Calls(r) == req[r].calls23 \o req[r].calls34

\* the connections of a gather's calls, attributed to their items and capped
Expected(r) ==
  LimitedConnections(
    ZipConnections(req[r].dok3_items, Results(req[r].calls23)),
    ZipConnections(req[r].dok4_items, Results(req[r].calls34)))

\* C2: when the call of an item fails, the item contributes no connection
\* and analyze still returns the connections of every other item.
C2_ItemFailureDoesNotAbort ==
  \A r \in Slots :
    ( /\ req[r].pc \in { "done", "raised" }
      /\ \E i \in DOMAIN Calls(r) : Calls(r)[i].state \in { "FAILED", "RAISED" } )
    => /\ req[r].connections = << Expected(r) >>
       /\ \A i \in DOMAIN Calls(r) :
            Calls(r)[i].state \in { "FAILED", "RAISED" }
              => Calls(r)[i].connections = << >>

\* how many connections of a list have the node on one side
Fanout(connections, key, node) ==
  Cardinality({ i \in DOMAIN connections : connections[i][key] = node })

Capped(connections) ==
  \A i \in DOMAIN connections :
    /\ Fanout(connections, "source_index", connections[i].source_index) <= 2
    /\ Fanout(connections, "target_index", connections[i].target_index) <= 2

\* C3: in each list analyze returns, no source_index and no target_index
\* occurs in more than 2 connections.
C3_FanoutCapped ==
  \A r \in Slots :
    req[r].connections # << >>
      => /\ Capped(req[r].connections[1].dok2_to_dok3)
         /\ Capped(req[r].connections[1].dok3_to_dok4)

\* three or more items resolved to the same source, two connections kept
C3_Witness ==
  \E r \in Slots :
    /\ req[r].connections # << >>
    /\ Fanout(req[r].dok2_to_dok3, "source_index", 1) >= 3
    /\ Fanout(req[r].connections[1].dok2_to_dok3, "source_index", 1) = 2

\* request r is received in this step
Received(r) == req[r].pc = "idle" /\ req'[r].pc # "idle"

\* C4: analyze with force=false on an id with a cached ConnectionSet returns
\* that ConnectionSet, issues no model call and leaves the record unchanged.
C4_CacheHitReturnsCached ==
  [][ \A r \in Slots :
        ( /\ Received(r)
          /\ ~ req'[r].force
          /\ store[req'[r].id] # << >>
          /\ store[req'[r].id][1].connections # << >> )
        => /\ req'[r].pc = "done"
           /\ req'[r].response =
                [ status |-> 200, body |-> store[req'[r].id][1].connections ]
           /\ req'[r].calls23 = << >> /\ req'[r].calls34 = << >>
           /\ store' = store ]_vars

\* C5: a forced analyze of an existing id issues fresh model calls and
\* overwrites the cached ConnectionSet with the newly computed one (stated
\* for a document with items, where there are calls to issue).
C5_ForcedAlwaysCallsAndOverwrites ==
  \A r \in Slots :
    ( /\ req[r].pc = "done" /\ req[r].force
      /\ store[req[r].id] # << >>
      /\ \E key \in DOMAIN store[req[r].id][1].sections :
           store[req[r].id][1].sections[key] # << >> )
      => /\ req[r].response.status = 200
         /\ Len(Calls(r)) > 0
         /\ req[r].connections # << >>
         /\ store[req[r].id][1].connections = req[r].connections

\* the candidates of the reply of the call applied, when it parses to an
\* object with a "connections" list
Declared ==
  LET result == _call_llm(arg)
  IN  IF /\ result # << >> /\ result[1].kind = "object"
         /\ result[1].has_connections /\ result[1].is_list
      THEN result[1].entries ELSE << >>

ValidIndices == { items[i].index : i \in DOMAIN items }

IsFindOp == op \in { "find_dok2_connections_for_dok3", "find_dok3_connections_for_dok4" }

ValidPositions ==
  { i \in DOMAIN Declared :
      /\ Declared[i].is_dict
      /\ Declared[i].id # << >>
      /\ Declared[i].id[1] \in ValidIndices }

C11_KindSupportsOrContradicts ==
  /\ \A r \in Slots :
       req[r].connections # << >> => ValidAnalysis(req[r].connections[1])
  /\ \A id \in BrainliftIds :
       (store[id] # << >> /\ store[id][1].connections # << >>)
         => ValidAnalysis(store[id][1].connections[1])

\* the analysis is over: analyze_all_connections returned or raised
Over(r) == req[r].pc \in { "done", "raised" }

\* C13: every call that acquires a permit releases it, and when analyze
\* returns all 5 permits are free.
C13_ReturnsWithAllPermitsFree ==
  \A r \in Slots :
    /\ req[r].semaphore + Cardinality(InFlight(r)) = 5 \/ req[r].pc = "idle"
    /\ Over(r) => req[r].semaphore = 5

\* the calls a run owes to a tier pair
Owed(targets, sources) ==
  IF targets # << >> /\ sources # << >> THEN Len(targets) ELSE 0

\* C14: when the analysis is over and its tasks have ended, every tier-3
\* item has had exactly one call if tiers 2 and 3 have items, every tier-4
\* item exactly one if tiers 3 and 4 have items, each call has ended in one
\* of PARSED, EMPTY, FAILED (a call whose reply made the parsing raise is
\* counted as FAILED here), and a pair with an empty tier has had none.
C14_OneCallPerItem ==
  \A r \in Slots :
    ( /\ Over(r)
      /\ \A i \in DOMAIN Calls(r) : Calls(r)[i].state \in Final )
    => /\ Len(req[r].calls23) = Owed(req[r].dok3_items, req[r].dok2_items)
       /\ Len(req[r].calls34) = Owed(req[r].dok4_items, req[r].dok3_items)

\* the items and the calls of the two lists of a ConnectionSet
Origin(r, key) ==
  IF key = "dok2_to_dok3"
  THEN [ items |-> req[r].dok3_items, calls |-> req[r].calls23 ]
  ELSE [ items |-> req[r].dok4_items, calls |-> req[r].calls34 ]

\* the positions in an item list of the items with an index
PositionsOf(dok_items, index) ==
  { i \in DOMAIN dok_items : dok_items[i].index = index }

\* C15: in each list analyze returns, a connection comes before another
\* only if its item comes first in the item list, and every connection is
\* the one the call of its own item produced.
C15_RankOrderAndAttribution ==
  \A r \in Slots :
    req[r].connections # << >> =>
      \A key \in { "dok2_to_dok3", "dok3_to_dok4" } :
        LET list == req[r].connections[1][key]
            from == Origin(r, key)
        IN  /\ \A a, b \in DOMAIN list :
                 a < b =>
                   \A i \in PositionsOf(from.items, list[a].target_index),
                      j \in PositionsOf(from.items, list[b].target_index) : i < j
            /\ \A a \in DOMAIN list :
                 \E i \in PositionsOf(from.items, list[a].target_index) :
                   from.calls[i].connections =
                     << [ id |-> list[a].source_index, type |-> list[a].type ] >>

\* two items whose calls produced different connections, both returned
C15_Witness ==
  \E r \in Slots :
    /\ req[r].connections # << >>
    /\ \E a, b \in DOMAIN req[r].connections[1].dok2_to_dok3 :
         LET list == req[r].connections[1].dok2_to_dok3
         IN  /\ a < b
             /\ list[a].source_index # list[b].source_index
             /\ list[a].type # list[b].type

\* C16: the cap of a tier pair is applied only when every call launched for
\* the pair has ended in PARSED, EMPTY or FAILED, and to the connections of
\* all of them.
C16_CapAfterAllCalls ==
  \A r \in Slots :
    req[r].connections # << >> =>
      /\ \A i \in DOMAIN Calls(r) :
           Calls(r)[i].state \in { "PARSED", "EMPTY", "FAILED" }
      /\ req[r].connections = << Expected(r) >>

\* both tier pairs had calls and the cap removed a connection
C16_Witness ==
  \E r \in Slots :
    /\ req[r].connections # << >>
    /\ req[r].calls23 # << >> /\ req[r].calls34 # << >>
    /\ Len(req[r].connections[1].dok2_to_dok3) < Len(req[r].dok2_to_dok3)

\* the cap of one key alone
SourcePass(connections) == _limit_connections_per_node(connections, "source_index")

\* C18: every target_index occurs in at most one connection of each list
\* analyze builds, so the target-side pass of the cap removes nothing: the
\* returned list is the source-side pass of the list built.
C18_TargetPassRemovesNothing ==
  \A r \in Slots :
    req[r].connections # << >> =>
      /\ \A i \in DOMAIN req[r].dok2_to_dok3 :
           Fanout(req[r].dok2_to_dok3, "target_index",
                  req[r].dok2_to_dok3[i].target_index) = 1
      /\ \A i \in DOMAIN req[r].dok3_to_dok4 :
           Fanout(req[r].dok3_to_dok4, "target_index",
                  req[r].dok3_to_dok4[i].target_index) = 1
      /\ req[r].connections[1].dok2_to_dok3 = SourcePass(req[r].dok2_to_dok3)
      /\ req[r].connections[1].dok3_to_dok4 = SourcePass(req[r].dok3_to_dok4)

\* three connections built for one pair and one for the other
C18_Witness ==
  \E r \in Slots :
    /\ req[r].connections # << >>
    /\ Len(req[r].dok2_to_dok3) >= 3
    /\ Len(req[r].dok3_to_dok4) >= 1

(***************************************************************************)
(* Several analyses at once.  The handler builds a GroqService of its own  *)
(* for every request ("groq = GroqService()"), so each run started here    *)
(* has its own semaphore.                                                  *)
(***************************************************************************)

\* the document the concurrent runs analyse: three tier-3 items, one tier-4
SharedSections == Sections(1, 3, 1)

InitConcurrent ==
  /\ items = << >>
  /\ op = "none"
  /\ out = << >>
  /\ arg = SharedSections
  /\ llm = FewReplies
  /\ store = [ id \in BrainliftIds |-> << >> ]
  /\ req = [ r \in Slots |-> IdleRequest ]
  /\ quota = [ analyze |-> MaxRequests, delete |-> 0 ]

SpecConcurrent == InitConcurrent /\ [][NextEngine]_vars

\* the calls in flight towards the model endpoint, of all runs
AllInFlight == UNION { { << r, c >> : c \in InFlight(r) } : r \in Slots }

\* C17: with two or more analyses running at once, the number of model
\* calls in flight towards the endpoint is at most 5.
C17_TotalInFlightAtMostLimit == Cardinality(AllInFlight) <= 5

(***************************************************************************)
(* storage.py called with a session: its functions applied to the table,   *)
(* in any order.  items holds the table before the last call, arg the      *)
(* arguments of the call and out what it returned.                         *)
(***************************************************************************)

\* the ConnectionSets handed to save_connections
SavedConnections ==
  { LimitedConnections(<< >>, << >>),
    LimitedConnections(
      ZipConnections(TierItems(1), << << [ id |-> 1, type |-> "supports" ] >> >>),
      << >>) }

InitStorage ==
  /\ \E sections \in AppSections :
       \E connections \in CachedConnections(sections) :
         store = [ id \in BrainliftIds |->
                     IF id = "b1"
                     THEN << [ sections |-> sections, connections |-> connections ] >>
                     ELSE << >> ]
  /\ items = store
  /\ op = "none"
  /\ arg = << >>
  /\ out = << >>
  /\ req = [ r \in Slots |-> IdleRequest ]
  /\ quota = [ analyze |-> 0, delete |-> 0 ]
  /\ llm = {}

ApplyGetBrainlift(brainlift_id) ==
  /\ op' = "get_brainlift"
  /\ arg' = [ id |-> brainlift_id ]
  /\ items' = store
  /\ out' = get_brainlift(store, brainlift_id)
  /\ UNCHANGED appVars

ApplySaveConnections(brainlift_id, connections) ==
  /\ op' = "save_connections"
  /\ arg' = [ id |-> brainlift_id, connections |-> connections ]
  /\ items' = store
  /\ out' = Found(store, brainlift_id)
  /\ store' = save_connections(store, brainlift_id, connections)
  /\ UNCHANGED << req, quota, llm >>

ApplyDeleteBrainlift(brainlift_id) ==
  /\ op' = "delete_brainlift"
  /\ arg' = [ id |-> brainlift_id ]
  /\ items' = store
  /\ out' = Found(store, brainlift_id)
  /\ store' = delete_brainlift(store, brainlift_id)
  /\ UNCHANGED << req, quota, llm >>

NextStorage ==
  \/ \E id \in BrainliftIds : ApplyGetBrainlift(id)
  \/ \E id \in BrainliftIds, connections \in SavedConnections :
       ApplySaveConnections(id, connections)
  \/ \E id \in BrainliftIds : ApplyDeleteBrainlift(id)

SpecStorage == InitStorage /\ [][NextStorage]_vars

\* C19: save_connections on an id whose record is gone (deleted while the
\* analysis was under way) returns false, creates no record, attaches the
\* connections to no record, and a get of the id finds no record.
C19_SaveOnMissingIdChangesNothing ==
  (op = "save_connections" /\ items[arg.id] = << >>)
    => /\ out = FALSE
       /\ store = items
       /\ get_brainlift(store, arg.id) = << >>

\* the record every run starts with was deleted, then its connections came
C19_Witness ==
  /\ op = "save_connections"
  /\ arg.id = "b1"
  /\ items["b1"] = << >>
  /\ out = FALSE

(***************************************************************************)
(* The tree functions applied to bounded node lists.                       *)
(***************************************************************************)

\* names of the nodes: the two of the specification's example and one that
\* needs strip() and lower() to match a tier-3 variant
TreeNames ==
  { << "D","O","K","4"," ","-"," ","S","P","O","V","s" >>,
    << "R","a","n","d","o","m"," ","T","o","p","i","c" >>,
    << " ","d","o","k","3"," " >> }

\* a parent link: none, a node of the list, or an id no node has
ParentLinks == { << >> } \cup { << j >> : j \in 1 .. MaxNodes + 1 }

Priorities == { << >> } \cup { << p >> : p \in 0 .. MaxPr }

\* node lists of n nodes of any shape (roots, orphans, self-parents, cycles)
TreeLists(n) ==
  { [ k \in 1 .. n |->
        [ id |-> k, prnt |-> f[k].prnt, nm |-> f[k].nm,
          no |-> << >>, pr |-> << >> ] ] :
    f \in [ 1 .. n -> [ prnt : ParentLinks, nm : TreeNames ] ] }

\* the name of the k-th node of a section list, different for every k
NodeName(k) == << "n", ToString(k) >>

NodeNote(k) == IF k % 2 = 1 THEN << "t", ToString(k) >> ELSE << >>

\* the parent links of the k-th node of a section list: none, or one of the
\* first two nodes before it
SectionLinks(k) == { << >> } \cup { << j >> : j \in { 1, 2 } \cap 1 .. (k - 1) }

\* node lists of n nodes for parse_dok_section: node 1 and node 2 have
\* children, in any input order and with any priorities
SectionLists(n) ==
  { [ k \in 1 .. n |->
        [ id |-> k, prnt |-> f[k].prnt, nm |-> NodeName(k),
          no |-> NodeNote(k), pr |-> f[k].pr ] ] :
    f \in { g \in [ 1 .. n -> [ prnt : SectionLinks(n), pr : Priorities ] ] :
              \A k \in 1 .. n : g[k].prnt \in SectionLinks(k) } }

InitTree ==
  /\ \E n \in 1 .. MaxNodes : items \in TreeLists(n)
  /\ op = "none"
  /\ arg = << >>
  /\ out = << >>
  /\ AppIdle

InitSection ==
  /\ \E n \in 1 .. MaxNodes + 1 : items \in SectionLists(n)
  /\ op = "none"
  /\ arg = << >>
  /\ out = << >>
  /\ AppIdle

ApplyBuildTree ==
  /\ op = "none"
  /\ op' = "build_tree"
  /\ arg' = << >>
  /\ out' = build_tree(items)
  /\ UNCHANGED items
  /\ UNCHANGED appVars

ApplyFindSectionNode(key) ==
  /\ op = "none"
  /\ op' = "find_section_node"
  /\ arg' = << key >>
  /\ out' = find_section_node(items, SECTION_VARIANTS[key])
  /\ UNCHANGED items
  /\ UNCHANGED appVars

ApplyParseDokSection(k) ==
  /\ op = "none"
  /\ op' = "parse_dok_section"
  /\ arg' = << k >>
  /\ out' = parse_dok_section(items, items[k])
  /\ UNCHANGED items
  /\ UNCHANGED appVars

ApplyExtractSections ==
  /\ op = "none"
  /\ op' = "extract_sections"
  /\ arg' = << >>
  /\ out' = ExtractOutcome(items)
  /\ UNCHANGED items
  /\ UNCHANGED appVars

NextTree ==
  \/ ApplyBuildTree
  \/ \E key \in SectionKeys : ApplyFindSectionNode(key)
  \/ ApplyExtractSections

NextSection ==
  \E k \in DOMAIN items : ApplyParseDokSection(k)

SpecTree == InitTree /\ [][NextTree]_vars

SpecSection == InitSection /\ [][NextSection]_vars

(***************************************************************************)
(* Properties of the tree functions.                                       *)
(***************************************************************************)

NodeIds == { items[k].id : k \in DOMAIN items }

\* node A's parent is B and B's parent is A
HasParentCycle ==
  \E a, b \in DOMAIN items :
    /\ a # b
    /\ items[a].prnt = << items[b].id >>
    /\ items[b].prnt = << items[a].id >>

\* C7: extraction of a node list with a parent cycle fails with a
\* StructureError and returns no Document.
C7_CycleFailsWithStructureError ==
  (op = "extract_sections" /\ HasParentCycle)
    => (out.status = "StructureError" /\ out.sections = << >>)

\* how often a node id occurs among the roots and the children lists of a
\* build_tree result
RootSlots(r, id) == { i \in DOMAIN r.tree : r.tree[i] = id }

ChildSlots(r, id) ==
  { pi \in UNION { { << p, i >> : i \in DOMAIN r.items_by_id[p] } :
                   p \in DOMAIN r.items_by_id } :
      r.items_by_id[pi[1]][pi[2]] = id }

\* C8: build_tree places every node exactly once: a node with no parent
\* link, or with one that matches no node, is a root; every other node is a
\* child of its parent's node.
C8_EveryNodePlacedOnce ==
  op = "build_tree" =>
    \A k \in DOMAIN items :
      LET n == items[k] IN
      /\ Cardinality(RootSlots(out, n.id)) + Cardinality(ChildSlots(out, n.id)) = 1
      /\ IF n.prnt = << >> \/ n.prnt[1] \notin NodeIds
         THEN Cardinality(RootSlots(out, n.id)) = 1
         ELSE \E i \in DOMAIN out.items_by_id[n.prnt[1]] :
                out.items_by_id[n.prnt[1]][i] = n.id

\* name contains variant, compared case-insensitively, character by
\* character
ContainsNoCase(name, variant) ==
  \E off \in 0 .. (Len(name) - Len(variant)) :
    \A j \in DOMAIN variant :
      LowerChar(name[off + j]) = LowerChar(variant[j])

\* the positions of the direct children of the first root whose name
\* contains a variant of the section
MatchingChildren(key) ==
  LET roots == { k \in DOMAIN items : items[k].prnt = << >> } IN
  { k \in DOMAIN items :
      /\ roots # {}
      /\ items[k].prnt = << items[First(roots)].id >>
      /\ \E v \in DOMAIN SECTION_VARIANTS[key] :
           ContainsNoCase(items[k].nm, SECTION_VARIANTS[key][v]) }

\* C9: find_section_node returns none when the list has no root or no
\* direct child of the root matches, and otherwise the first direct child
\* of the root, in input order, whose name contains a variant
\* case-insensitively; never a deeper node.
C9_FirstMatchingChildOfRoot ==
  op = "find_section_node" =>
    LET hits == MatchingChildren(arg[1]) IN
    IF hits = {} THEN out = << >>
    ELSE /\ out = << items[First(hits)] >>
         /\ \E r \in DOMAIN items :
              items[r].prnt = << >> /\ out[1].prnt = << items[r].id >>

\* two direct children match (the second must lose), the first of them
\* only when its name is lower-cased
C9_Witness ==
  /\ op = "find_section_node"
  /\ out # << >>
  /\ Cardinality(MatchingChildren(arg[1])) >= 2
  /\ ~ \E v \in DOMAIN SECTION_VARIANTS[arg[1]] :
         Contains(SECTION_VARIANTS[arg[1]][v], out[1].nm)

\* the positions of the direct children of the node parsed
SectionChildren == { k \in DOMAIN items : items[k].prnt = << items[arg[1]].id >> }

\* the rank of child k: one more than the number of siblings of smaller
\* priority, or of the same priority and earlier in the input
Rank(k) ==
  1 + Cardinality({ j \in SectionChildren :
                      \/ PrKey(items[j]) < PrKey(items[k])
                      \/ PrKey(items[j]) = PrKey(items[k]) /\ j < k })

\* C10: the items of a section with N direct children carry the indices
\* 1..N, item k being the child of k-th smallest priority, ties in input
\* order.
C10_IndicesContiguousInPriorityOrder ==
  op = "parse_dok_section" =>
    /\ Len(out.items) = Cardinality(SectionChildren)
    /\ \A i \in DOMAIN out.items : out.items[i].index = i
    /\ \A k \in SectionChildren :
         /\ Rank(k) \in DOMAIN out.items
         /\ out.items[Rank(k)].content[1] = items[k].nm

\* three children, two of them tied, listed against their priority order
C10_Witness ==
  /\ op = "parse_dok_section"
  /\ Cardinality(SectionChildren) >= 3
  /\ \E j, k \in SectionChildren :
       j < k /\ PrKey(items[j]) > PrKey(items[k])
  /\ \E j, k \in SectionChildren :
       j # k /\ PrKey(items[j]) = PrKey(items[k])

(***************************************************************************)
(* main.py: POST /extract.  arg is what the request and the upstream do:   *)
(* whether the url contains "workflowy.com/s/", how the GET of the shared  *)
(* page ends and how the GET of the tree data ends; items is the node list *)
(* the tree data holds.                                                    *)
(***************************************************************************)

\* how the GET of the shared page ends in extract_share_id
PageOutcomes ==
  { "unreachable", "http_error", "no_cookie", "no_marker", "bad_json", "ok" }

\* how the GET of the tree data ends in get_tree_data
TreeOutcomes == { "unreachable", "http_error", "not_json", "bad_json", "ok" }

\* the exception a fetch outcome raises: aiohttp's ClientConnectorError,
\* raise_for_status' ClientResponseError, the two "raise Exception(...)" of
\* extract_share_id, ContentTypeError of response.json() on another content
\* type, and JSONDecodeError of json.loads / response.json() on a body that
\* is not JSON
ExceptionOf(outcome) ==
  CASE outcome = "unreachable" -> "ClientConnectorError"
    [] outcome = "http_error" -> "ClientResponseError"
    [] outcome = "no_cookie" -> "Exception"
    [] outcome = "no_marker" -> "Exception"
    [] outcome = "not_json" -> "ContentTypeError"
    [] outcome = "bad_json" -> "JSONDecodeError"
    [] OTHER -> ""

\* isinstance(e, ValueError): json.JSONDecodeError is a subclass of
\* ValueError
IsValueError(exception) == exception \in { "ValueError", "JSONDecodeError" }

\* scrape up to "items = await self.get_tree_data(...)": the exception
\* raised ("" for none) and the GETs made
scrape(request, its) ==
  IF ~ request.url_ok
  THEN [ raised |-> "ValueError", fetches |-> 0, items |-> << >> ]
  ELSE IF request.page # "ok"
  THEN [ raised |-> ExceptionOf(request.page), fetches |-> 1, items |-> << >> ]
  ELSE IF request.tree # "ok"
  THEN [ raised |-> ExceptionOf(request.tree), fetches |-> 2, items |-> << >> ]
  ELSE [ raised |-> "", fetches |-> 2, items |-> its ]

\* sections.model_dump(), reduced to what a row keeps
StoredSection(section) ==
  IF section = << >> THEN << >>
  ELSE << [ items |-> [ i \in DOMAIN section[1].items |->
                          [ index |-> section[1].items[i].index ] ] ] >>

StoredSections(sections) ==
  [ dok2_knowledge_tree |-> StoredSection(sections.dok2_knowledge_tree),
    dok3_insights |-> StoredSection(sections.dok3_insights),
    dok4_spov |-> StoredSection(sections.dok4_spov) ]

\* the id str(uuid.uuid4())[:8] gives
NewId == "b2"

\* the three ways the handler ends
ClientError(fetches) ==
  [ status |-> 400, success |-> FALSE, error |-> TRUE, fetches |-> fetches ]

Failure(fetches) ==
  [ status |-> 200, success |-> FALSE, error |-> TRUE, fetches |-> fetches ]

Success(fetches) ==
  [ status |-> 200, success |-> TRUE, error |-> FALSE, fetches |-> fetches ]

\* 'except ValueError' before 'except Exception'
Handled(exception, fetches) ==
  IF IsValueError(exception) THEN ClientError(fetches) ELSE Failure(fetches)

\* POST /extract.  After a scrape that worked, extract_sections can end in
\* RecursionError, and "storage.save_brainlift(brainlift_id=..., name=...,
\* url=..., sections=...)" raises TypeError for the missing session; both
\* are caught by 'except Exception'.
extract_brainlift ==
  LET scraped == scrape(arg, items)
      outcome == ExtractOutcome(scraped.items)
  IN  /\ op = "none"
      /\ op' = "extract_brainlift"
      /\ UNCHANGED << items, arg, req, quota, llm >>
      /\ IF scraped.raised # ""
         THEN /\ out' = Handled(scraped.raised, scraped.fetches)
              /\ UNCHANGED store
         ELSE IF outcome.status # "ok"
         THEN /\ out' = Handled(outcome.status, scraped.fetches)
              /\ UNCHANGED store
         ELSE IF CallRaises("save_brainlift",
                            << "brainlift_id", "name", "url", "sections" >>)
         THEN /\ out' = Handled("TypeError", scraped.fetches)
              /\ UNCHANGED store
         ELSE /\ out' = Success(scraped.fetches)
              /\ store' = save_brainlift(store, NewId,
                                         StoredSections(outcome.sections[1]))

\* the table the extract requests meet: one row
ExtractTable ==
  [ id \in BrainliftIds |->
      IF id = "b1"
      THEN << [ sections |-> Sections(1, 1, 1), connections |-> << >> ] >>
      ELSE << >> ]

InitExtract ==
  /\ arg \in [ url_ok : BOOLEAN, page : PageOutcomes, tree : TreeOutcomes ]
  /\ items \in TreeLists(1)
  /\ op = "none"
  /\ out = << >>
  /\ store = ExtractTable
  /\ req = [ r \in Slots |-> IdleRequest ]
  /\ quota = [ analyze |-> 0, delete |-> 0 ]
  /\ llm = {}

NextExtract == extract_brainlift

SpecExtract == InitExtract /\ [][NextExtract]_vars

\* C12: a failed extract leaves storage unchanged; a url that does not
\* match the shared-link pattern is a client error with no fetch made; a
\* fetch failure (upstream unreachable, markers or data missing or
\* malformed) is a response with success=false and an error, not a client
\* error.
C12_FailureReportedByKind ==
  (op = "extract_brainlift" /\ ~ out.success) =>
    /\ store = ExtractTable
    /\ ~ arg.url_ok => (out.status = 400 /\ out.fetches = 0)
    /\ (arg.url_ok /\ (arg.page # "ok" \/ arg.tree # "ok"))
         => (out.status = 200 /\ out.error)

====
